---- MODULE Spec2Model ----
(***************************************************************************)
(* A model of the imrc extension module (src/src/lib.rs): the persistent   *)
(* HashMap, HashSet and Vector classes exposed to the host interpreter.    *)
(*                                                                         *)
(* The state is the interpreter's heap of collection instances (a handle   *)
(* is an index into it) and the record of the last call: its operation,    *)
(* its arguments and what it returned or raised.  One action per method.   *)
(*                                                                         *)
(* Host values are strings: "None", the int 1 ("i1"), the bool True        *)
(* ("True", equal to 1 and with the same hash), the int 2 ("i2"), the str  *)
(* "a", the float                                                          *)
(* nan ("nan", unequal to itself) and "bad", an object whose __eq__ and    *)
(* __ne__ raise.  Keys are the hashable values with a total equality;      *)
(* the trie only asks Key::eq about keys of equal hash, and the equal-hash *)
(* keys of the model (1 and True) answer __eq__ with a bool.               *)
(*                                                                         *)
(* The im_rc containers are modelled by their contents in insertion order  *)
(* (an over-approximation of the trie's layout: the iteration order of a   *)
(* map or a set may be any order).                                         *)
(***************************************************************************)
EXTENDS Naturals, Sequences, FiniteSets

VARIABLES heap, last

vars == <<heap, last>>

\* ---------------------------------------------------------------- bounds

\* Live instances the interpreter holds at once.
MaxObjs == 2

\* Length of an iterable or an argument list handed to a constructor.
MaxLen == 2

\* Number of positional sources handed to update().
MaxSrc == 2

\* ----------------------------------------------------------- host values

\* Map keys: 1, True (equal to 1) and the str "a".
Keys == {"i1", "True", "a"}

\* Set elements: 1, 2 and the str "a".
SetKeys == {"i1", "i2", "a"}

Payloads == {"None", "i1", "bad"}

Elems == {"i1", "a", "nan", "bad"}

KwNames == {"a"}

SeqsUpTo(S, n) == UNION {[1..k -> S] : k \in 0..n}

\* The host's hash(): hash(1) == hash(True) == 1.
PyHash(v) == IF v \in {"i1", "True"} THEN 1 ELSE IF v = "i2" THEN 2 ELSE 3

\* The host's equality classes: 1 == True; every other value equals itself only.
EqClass(v) == IF v = "True" THEN "i1" ELSE v

\* A fallible bool (PyResult<bool>).
Ok(b) == [ok |-> TRUE, val |-> b]

Err == [ok |-> FALSE, val |-> FALSE]

\* PyAny::eq, the rich comparison x == y: raises when either side's __eq__
\* raises, is False for nan, and is never short-cut by identity.
PyAny_eq(x, y) ==
    IF x = "bad" \/ y = "bad" THEN Err
    ELSE Ok(x # "nan" /\ y # "nan" /\ EqClass(x) = EqClass(y))

\* PyAny::ne, the rich comparison x != y.
PyAny_ne(x, y) ==
    IF x = "bad" \/ y = "bad" THEN Err
    ELSE Ok(~(x # "nan" /\ y # "nan" /\ EqClass(x) = EqClass(y)))

\* Result::unwrap_or
unwrap_or(r, d) == IF r.ok THEN r.val ELSE d

\* Option<T>: <<>> is None, <<x>> is Some(x).
None == <<>>

Some(x) == <<x>>

\* Option<&PyObject>::to_object: None becomes the host's None.
to_object(opt) == IF opt = None THEN "None" ELSE opt[1]

\* ------------------------------------------------------------------- Key

\* Key::extract: the hash is taken once, at construction.
Key_extract(ob) == [hash |-> PyHash(ob), inner |-> ob]

\* Key::eq: self.inner.__eq__(other.inner), asked of keys of equal hash.
Key_eq(a, b) == EqClass(a.inner) = EqClass(b.inner)

\* ------------------------------------------------- im_rc::HashMap<Key, V>

\* The position of the entry stored under a key equal to `key`, or 0.
HashMap_find(m, key) ==
    LET hits == {i \in 1..Len(m) : m[i].k.hash = key.hash /\ Key_eq(m[i].k, key)}
    IN IF hits = {} THEN 0 ELSE CHOOSE i \in hits : \A j \in hits : i <= j

HashMap_contains_key(m, key) == HashMap_find(m, key) # 0

HashMap_get(m, key) ==
    IF HashMap_find(m, key) = 0 THEN None ELSE Some(m[HashMap_find(m, key)].v)

\* HashMap::update and HashMap::insert: the binding replaces an equal key's.
HashMap_update(m, key, value) ==
    IF HashMap_find(m, key) = 0
    THEN Append(m, [k |-> key, v |-> value])
    ELSE [m EXCEPT ![HashMap_find(m, key)] = [k |-> key, v |-> value]]

\* HashMap::without
HashMap_without(m, key) ==
    LET i == HashMap_find(m, key)
    IN IF i = 0 THEN m
       ELSE [j \in 1..(Len(m) - 1) |-> IF j < i THEN m[j] ELSE m[j + 1]]

HashMap_len(m) == Len(m)

\* ------------------------------------------------------------- HashMapPy

\* A source of bindings: the pairs an iterable or a mapping's items() yields.
Pair(k, v) == [k |-> k, v |-> v]

PairLists == SeqsUpTo({Pair(k, v) : k \in Keys, v \in Payloads}, MaxLen)

\* Keyword arguments: a dict with str keys.
Kwds == {<<>>} \cup {<<Pair(k, v)>> : k \in KwNames, v \in {"None", "i1"}}

\* The loops of extract, init and update: insert each pair in source order.
RECURSIVE InsertAll(_, _)
InsertAll(m, pairs) ==
    IF pairs = <<>> THEN m
    ELSE InsertAll(HashMap_update(m, Key_extract(pairs[1].k), pairs[1].v), Tail(pairs))

\* HashMapPy::extract
HashMapPy_extract(ob) == InsertAll(<<>>, ob)

\* HashMapPy::init
HashMapPy_init(value, kwds) ==
    InsertAll(IF value = None THEN <<>> ELSE HashMapPy_extract(value[1]), kwds)

HashMapPy_contains(self, key) == HashMap_contains_key(self, Key_extract(key))

HashMapPy_len(self) == HashMap_len(self)

\* HashMapPy::keys, the contents __iter__ hands out.
HashMapPy_keys(self) == [i \in 1..Len(self) |-> self[i].k]

\* HashMapPy::items
HashMapPy_items(self) == [i \in 1..Len(self) |-> Pair(self[i].k.inner, self[i].v)]

\* HashMapPy::__getitem__ : Ok(value) or Err(KeyError)
HashMapPy_getitem(self, key) ==
    LET r == HashMap_get(self, Key_extract(key))
    IN IF r = None THEN [status |-> "KeyError", out |-> "-"]
       ELSE [status |-> "ok", out |-> r[1]]

\* The iterator chain of __richcmp__ Eq: the payload of each of self's entries
\* against other.get(key), stopping at the first that is not Ok(true).
\* `failed` records that an equality call raised.
RECURSIVE MapAllEq(_, _)
MapAllEq(es, other) ==
    IF es = <<>> THEN [val |-> TRUE, failed |-> FALSE]
    ELSE LET r == PyAny_eq(es[1].v, to_object(HashMap_get(other, es[1].k)))
         IN IF unwrap_or(r, FALSE)
            THEN MapAllEq(Tail(es), other)
            ELSE [val |-> FALSE, failed |-> ~r.ok]

\* The iterator chain of __richcmp__ Ne.
RECURSIVE MapAllNe(_, _)
MapAllNe(es, other) ==
    IF es = <<>> THEN [val |-> TRUE, failed |-> FALSE]
    ELSE LET r == PyAny_ne(es[1].v, to_object(HashMap_get(other, es[1].k)))
         IN IF unwrap_or(r, TRUE)
            THEN LET rest == MapAllNe(Tail(es), other)
                 IN [val |-> rest.val, failed |-> rest.failed \/ ~r.ok]
            ELSE [val |-> FALSE, failed |-> FALSE]

\* HashMapPy::__richcmp__
HashMapPy_richcmp(self, other, op) ==
    IF op = "Eq" THEN
        IF HashMap_len(self) = HashMap_len(other)
        THEN LET s == MapAllEq(self, other)
             IN [status |-> "ok", out |-> s.val, failed |-> s.failed]
        ELSE [status |-> "ok", out |-> FALSE, failed |-> FALSE]
    ELSE IF op = "Ne" THEN
        IF HashMap_len(self) # HashMap_len(other)
        THEN [status |-> "ok", out |-> TRUE, failed |-> FALSE]
        ELSE LET s == MapAllNe(self, other)
             IN [status |-> "ok", out |-> s.val, failed |-> s.failed]
    ELSE [status |-> "NotImplemented", out |-> FALSE, failed |-> FALSE]

\* HashMapPy::discard
HashMapPy_discard(self, key) ==
    IF HashMap_contains_key(self, Key_extract(key))
    THEN HashMap_without(self, Key_extract(key))
    ELSE self

\* An insert that never looks for an equal key.
HashMapPy_insert_blind(self, key, value) ==
    Append(self, [k |-> Key_extract(key), v |-> value])

\* HashMapPy::insert
HashMapPy_insert(self, key, value) == HashMap_update(self, Key_extract(key), value)

\* A remove that answers an absent key like discard does.
HashMapPy_remove_silent(self, key) == Some(HashMap_without(self, Key_extract(key)))

\* HashMapPy::remove : Some(new map), or None when it raises KeyError
HashMapPy_remove(self, key) ==
    IF HashMap_contains_key(self, Key_extract(key))
    THEN Some(HashMap_without(self, Key_extract(key)))
    ELSE None

\* HashMapPy::update: fold the sources left to right, then the keywords.
RECURSIVE UpdateAll(_, _)
UpdateAll(inner, maps) ==
    IF maps = <<>> THEN inner
    ELSE UpdateAll(InsertAll(inner, HashMapPy_items(HashMapPy_extract(maps[1]))),
                   Tail(maps))

\* A fold that applies the keywords before the positional sources.
HashMapPy_update_kwds_first(self, maps, kwds) == UpdateAll(InsertAll(self, kwds), maps)

HashMapPy_update(self, maps, kwds) == InsertAll(UpdateAll(self, maps), kwds)

\* ------------------------------------------------------ im_rc::HashSet<Key>

HashSet_find(s, key) ==
    LET hits == {i \in 1..Len(s) : s[i].hash = key.hash /\ Key_eq(s[i], key)}
    IN IF hits = {} THEN 0 ELSE CHOOSE i \in hits : \A j \in hits : i <= j

HashSet_contains(s, key) == HashSet_find(s, key) # 0

\* HashSet::update and HashSet::insert
HashSet_update(s, key) ==
    IF HashSet_find(s, key) = 0 THEN Append(s, key)
    ELSE [s EXCEPT ![HashSet_find(s, key)] = key]

\* HashSet::without and HashSet::remove
HashSet_without(s, key) ==
    LET i == HashSet_find(s, key)
    IN IF i = 0 THEN s
       ELSE [j \in 1..(Len(s) - 1) |-> IF j < i THEN s[j] ELSE s[j + 1]]

HashSet_len(s) == Len(s)

\* ------------------------------------------------------------- HashSetPy

\* An iterable of elements.
KeyLists == SeqsUpTo(SetKeys, MaxLen)

\* Iterables handed to update(): at most one element each.
Iterables == SeqsUpTo(SeqsUpTo(SetKeys, 1), MaxSrc)

\* The loops of extract and update: insert each element in iteration order.
RECURSIVE SetInsertAll(_, _)
SetInsertAll(s, values) ==
    IF values = <<>> THEN s
    ELSE SetInsertAll(HashSet_update(s, Key_extract(values[1])), Tail(values))

\* HashSetPy::extract
HashSetPy_extract(ob) == SetInsertAll(<<>>, ob)

\* HashSetPy::init
HashSetPy_init(value) == IF value = None THEN <<>> ELSE HashSetPy_extract(value[1])

HashSetPy_len(self) == HashSet_len(self)

\* HashSetPy::__iter__ : the elements the iterator hands out
HashSetPy_iter(self) == [i \in 1..Len(self) |-> self[i].inner]

\* A subset test that asks for some element instead of every element.
is_subset_any(one, two) == \E i \in 1..Len(one) : HashSet_contains(two, one[i])

\* is_subset
is_subset(one, two) == \A i \in 1..Len(one) : HashSet_contains(two, one[i])

\* HashSetPy::__richcmp__
HashSetPy_richcmp(self, other, op) ==
    IF op = "Eq" THEN
        [status |-> "ok",
         out |-> HashSet_len(self) = HashSet_len(other) /\ is_subset(self, other)]
    ELSE IF op = "Ne" THEN
        [status |-> "ok",
         out |-> \/ HashSet_len(self) # HashSet_len(other)
                 \/ \E i \in 1..Len(self) : ~HashSet_contains(other, self[i])]
    ELSE IF op = "Lt" THEN
        [status |-> "ok",
         out |-> HashSet_len(self) < HashSet_len(other) /\ is_subset(self, other)]
    ELSE IF op = "Le" THEN
        [status |-> "ok", out |-> is_subset(self, other)]
    ELSE [status |-> "NotImplemented", out |-> FALSE]

\* HashSetPy::insert
HashSetPy_insert(self, value) == HashSet_update(self, Key_extract(value))

\* HashSetPy::discard
HashSetPy_discard(self, value) ==
    IF HashSet_contains(self, Key_extract(value))
    THEN HashSet_without(self, Key_extract(value))
    ELSE self

\* HashSetPy::remove : Some(new set), or None when it raises KeyError
HashSetPy_remove(self, value) ==
    IF HashSet_contains(self, Key_extract(value))
    THEN Some(HashSet_without(self, Key_extract(value)))
    ELSE None

\* The loop of difference: remove each of other's elements.
RECURSIVE RemoveAll(_, _)
RemoveAll(inner, values) ==
    IF values = <<>> THEN inner
    ELSE RemoveAll(HashSet_without(inner, values[1]), Tail(values))

\* HashSetPy::difference
HashSetPy_difference(self, other) == RemoveAll(self, other)

\* The loop of intersection: keep the elements the larger set contains.
RECURSIVE KeepIn(_, _, _)
KeepIn(inner, values, larger) ==
    IF values = <<>> THEN inner
    ELSE KeepIn(IF HashSet_contains(larger, values[1])
                THEN HashSet_update(inner, values[1]) ELSE inner,
                Tail(values), larger)

\* HashSetPy::intersection
HashSetPy_intersection(self, other) ==
    IF HashSet_len(self) > HashSet_len(other)
    THEN KeepIn(<<>>, other, self)
    ELSE KeepIn(<<>>, self, other)

\* The loop of symmetric_difference: remove what is there, insert what is not.
RECURSIVE Toggle(_, _)
Toggle(inner, values) ==
    IF values = <<>> THEN inner
    ELSE Toggle(IF HashSet_contains(inner, values[1])
                THEN HashSet_without(inner, values[1])
                ELSE HashSet_update(inner, values[1]),
                Tail(values))

\* A symmetric difference that always takes self as its base and only
\* removes when other is the larger set.
HashSetPy_symmetric_difference_self_base(self, other) ==
    IF HashSet_len(self) > HashSet_len(other)
    THEN Toggle(self, other)
    ELSE RemoveAll(self, other)

\* HashSetPy::symmetric_difference
HashSetPy_symmetric_difference(self, other) ==
    IF HashSet_len(self) > HashSet_len(other)
    THEN Toggle(self, other)
    ELSE Toggle(other, self)

\* The loop of union: insert each element of the smaller set.
RECURSIVE AddAll(_, _)
AddAll(inner, values) ==
    IF values = <<>> THEN inner
    ELSE AddAll(HashSet_update(inner, values[1]), Tail(values))

\* HashSetPy::union
HashSetPy_union(self, other) ==
    IF HashSet_len(self) > HashSet_len(other)
    THEN AddAll(self, other)
    ELSE AddAll(other, self)

\* HashSetPy::update: fold every iterable's elements in.
RECURSIVE SetUpdateAll(_, _)
SetUpdateAll(inner, iterables) ==
    IF iterables = <<>> THEN inner
    ELSE SetUpdateAll(SetInsertAll(inner, iterables[1]), Tail(iterables))

HashSetPy_update(self, iterables) == SetUpdateAll(self, iterables)

\* ------------------------------------------------ im_rc::Vector<PyObject>

Vector_push_front(v, x) == <<x>> \o v

Vector_push_back(v, x) == Append(v, x)

\* Vector::pop_front: nothing to pop from the empty vector.
Vector_pop_front(v) == IF v = <<>> THEN v ELSE Tail(v)

Vector_front(v) == IF v = <<>> THEN None ELSE Some(v[1])

\* -------------------------------------------------------------- VectorPy

ElemLists == SeqsUpTo(Elems, MaxLen)

RECURSIVE PushBackAll(_, _)
PushBackAll(ret, values) ==
    IF values = <<>> THEN ret
    ELSE PushBackAll(Vector_push_back(ret, values[1]), Tail(values))

\* VectorPy::extract
VectorPy_extract(ob) == PushBackAll(<<>>, ob)

\* The host's iter(): a str yields its characters, a list its items; the
\* other values are not iterable.  An argument is [list, items, v].
ListArg(items) == [list |-> TRUE, items |-> items, v |-> "-"]

ValArg(v) == [list |-> FALSE, items |-> <<>>, v |-> v]

PyIter(arg) ==
    IF arg.list THEN Some(arg.items)
    ELSE IF arg.v = "a" THEN Some(<<"a">>)
    ELSE None

ArgValues(elements) == [i \in 1..Len(elements) |-> elements[i].v]

\* VectorPy::init : Some(vector), or None when the one argument is not iterable
VectorPy_init(elements) ==
    IF Len(elements) = 1
    THEN IF PyIter(elements[1]) = None THEN None
         ELSE Some(VectorPy_extract(PyIter(elements[1])[1]))
    ELSE IF Len(elements) > 1
         THEN Some(PushBackAll(<<>>, ArgValues(elements)))
         ELSE Some(<<>>)

VectorPy_len(self) == Len(self)

\* VectorPy::__reversed__
RECURSIVE PushFrontAll(_, _)
PushFrontAll(inner, values) ==
    IF values = <<>> THEN inner
    ELSE PushFrontAll(Vector_push_front(inner, values[1]), Tail(values))

VectorPy_reversed(self) == PushFrontAll(<<>>, self)

\* The iterator chain of __richcmp__ Eq: zip, eq, all(unwrap_or(false)).
RECURSIVE VecAllEq(_, _)
VecAllEq(a, b) ==
    IF a = <<>> \/ b = <<>> THEN [val |-> TRUE, failed |-> FALSE]
    ELSE LET r == PyAny_eq(a[1], b[1])
         IN IF unwrap_or(r, FALSE)
            THEN VecAllEq(Tail(a), Tail(b))
            ELSE [val |-> FALSE, failed |-> ~r.ok]

\* The iterator chain of __richcmp__ Ne: zip, ne, any(unwrap_or(true)).
RECURSIVE VecAnyNe(_, _)
VecAnyNe(a, b) ==
    IF a = <<>> \/ b = <<>> THEN [val |-> FALSE, failed |-> FALSE]
    ELSE LET r == PyAny_ne(a[1], b[1])
         IN IF unwrap_or(r, TRUE)
            THEN [val |-> TRUE, failed |-> ~r.ok]
            ELSE VecAnyNe(Tail(a), Tail(b))

\* VectorPy::__richcmp__
VectorPy_richcmp(self, other, op) ==
    IF op = "Eq" THEN
        IF Len(self) = Len(other)
        THEN LET s == VecAllEq(self, other)
             IN [status |-> "ok", out |-> s.val, failed |-> s.failed]
        ELSE [status |-> "ok", out |-> FALSE, failed |-> FALSE]
    ELSE IF op = "Ne" THEN
        IF Len(self) # Len(other)
        THEN [status |-> "ok", out |-> TRUE, failed |-> FALSE]
        ELSE LET s == VecAnyNe(self, other)
             IN [status |-> "ok", out |-> s.val, failed |-> s.failed]
    ELSE [status |-> "NotImplemented", out |-> FALSE, failed |-> FALSE]

\* VectorPy::first : Ok(element) or Err(IndexError)
VectorPy_first(self) ==
    IF Vector_front(self) = None THEN [status |-> "IndexError", out |-> "-"]
    ELSE [status |-> "ok", out |-> Vector_front(self)[1]]

\* VectorPy::push_front
VectorPy_push_front(self, other) == Vector_push_front(self, other)

\* A rest that pops the back element.
VectorPy_rest_back(self) == IF self = <<>> THEN self ELSE SubSeq(self, 1, Len(self) - 1)

\* VectorPy::rest
VectorPy_rest(self) == Vector_pop_front(self)

\* ------------------------------------------------------------ the heap

\* A collection instance.
Obj(kind, inner) == [kind |-> kind, inner |-> inner]

\* The record of a call: what was called on what, and what came back.
\* ret is the handle of the returned instance (0: none), out a returned
\* value, failed whether a delegated equality call raised during the call.
Call(op, self, other, arg, status, ret, out, failed) ==
    [op |-> op, self |-> self, other |-> other, arg |-> arg, status |-> status,
     ret |-> ret, out |-> out, failed |-> failed]

NoCall == Call("none", 0, 0, <<>>, "ok", 0, FALSE, FALSE)

Handles(kind) == {h \in 1..Len(heap) : heap[h].kind = kind}

\* A method that returns a collection wraps it in a new instance.
HasRoom == Len(heap) < MaxObjs

\* Instances of different classes never meet in a call: a run works with
\* one class until it has dropped every instance of it.
Meets(kind) == \A h \in 1..Len(heap) : heap[h].kind = kind

\* CompareOp.  Map and Vector answer the four orderings alike (the `_` arm),
\* so Lt stands for them there.
CompareOps == {"Lt", "Le", "Eq", "Ne", "Gt", "Ge"}

EqOps == {"Eq", "Ne", "Lt"}

\* Sources of update(): iterables of at most one pair.
Sources == SeqsUpTo(SeqsUpTo({Pair(k, v) : k \in Keys, v \in Payloads}, 1), MaxSrc)

\* ---------------------------------------------------------- map actions

\* HashMap(value=None, **kwds)
MapInit(value, kwds) ==
    /\ Meets("HashMap")
    /\ heap' = Append(heap, Obj("HashMap", HashMapPy_init(value, kwds)))
    /\ last' = Call("init", 0, 0, [value |-> value, kwds |-> kwds], "ok",
                    Len(heap) + 1, FALSE, FALSE)

\* An insert that writes into the receiver before it returns the new map.
MapInsertInPlace(h, key, value) ==
    /\ heap' = Append([heap EXCEPT ![h].inner = HashMapPy_insert(@, key, value)],
                      Obj("HashMap", HashMapPy_insert(heap[h].inner, key, value)))
    /\ last' = Call("insert", h, 0, Pair(key, value), "ok", Len(heap) + 1, FALSE, FALSE)

\* m.insert(key, value)
MapInsert(h, key, value) ==
    /\ heap' = Append(heap, Obj("HashMap", HashMapPy_insert(heap[h].inner, key, value)))
    /\ last' = Call("insert", h, 0, Pair(key, value), "ok", Len(heap) + 1, FALSE, FALSE)

\* m.discard(key)
MapDiscard(h, key) ==
    /\ heap' = Append(heap, Obj("HashMap", HashMapPy_discard(heap[h].inner, key)))
    /\ last' = Call("discard", h, 0, key, "ok", Len(heap) + 1, FALSE, FALSE)

\* m.remove(key)
MapRemove(h, key) ==
    LET r == HashMapPy_remove(heap[h].inner, key)
    IN IF r = None
       THEN /\ heap' = heap
            /\ last' = Call("remove", h, 0, key, "KeyError", 0, FALSE, FALSE)
       ELSE /\ HasRoom
            /\ heap' = Append(heap, Obj("HashMap", r[1]))
            /\ last' = Call("remove", h, 0, key, "ok", Len(heap) + 1, FALSE, FALSE)

\* m.update(*maps, **kwds)
MapUpdate(h, maps, kwds) ==
    /\ heap' = Append(heap, Obj("HashMap", HashMapPy_update(heap[h].inner, maps, kwds)))
    /\ last' = Call("update", h, 0, [maps |-> maps, kwds |-> kwds], "ok",
                    Len(heap) + 1, FALSE, FALSE)

\* a == b, a != b, a < b, ...
MapRichcmp(h, o, op) ==
    LET r == HashMapPy_richcmp(heap[h].inner, heap[o].inner, op)
    IN /\ heap' = heap
       /\ last' = Call(op, h, o, <<>>, r.status, 0, r.out, r.failed)

\* The interpreter drops its last reference to an instance.
Drop(h) ==
    /\ heap' = [j \in 1..(Len(heap) - 1) |-> IF j < h THEN heap[j] ELSE heap[j + 1]]
    /\ last' = NoCall

\* The arguments of HashMap(...).
MapValues == {None} \cup {Some(p) : p \in PairLists}

\* The calls that return a new instance wait for room on the bounded heap.
MapUpdates ==
    \/ /\ HasRoom
       /\ \E value \in MapValues, kwds \in Kwds : MapInit(value, kwds)
    \/ /\ HasRoom
       /\ \E h \in Handles("HashMap"), key \in Keys, value \in Payloads :
              MapInsert(h, key, value)
    \/ /\ HasRoom
       /\ \E h \in Handles("HashMap"), key \in Keys : MapDiscard(h, key)
    \/ \E h \in Handles("HashMap"), key \in Keys : MapRemove(h, key)
    \/ /\ HasRoom
       /\ \E h \in Handles("HashMap"), maps \in Sources, kwds \in Kwds :
              MapUpdate(h, maps, kwds)

MapCompares ==
    \E h \in Handles("HashMap"), o \in Handles("HashMap"), op \in EqOps :
        MapRichcmp(h, o, op)

Release == \E h \in 1..Len(heap) : Drop(h)

\* ---------------------------------------------------------- set actions
\* The set a binary operation returns is inspected (out holds its contents)
\* and released at once.

\* HashSet(value=None)
SetInit(value) ==
    /\ Meets("HashSet")
    /\ heap' = Append(heap, Obj("HashSet", HashSetPy_init(value)))
    /\ last' = Call("init", 0, 0, value, "ok", Len(heap) + 1, FALSE, FALSE)

\* s.insert(value)
SetInsert(h, value) ==
    /\ heap' = Append(heap, Obj("HashSet", HashSetPy_insert(heap[h].inner, value)))
    /\ last' = Call("insert", h, 0, value, "ok", Len(heap) + 1, FALSE, FALSE)

\* s.discard(value)
SetDiscard(h, value) ==
    /\ heap' = Append(heap, Obj("HashSet", HashSetPy_discard(heap[h].inner, value)))
    /\ last' = Call("discard", h, 0, value, "ok", Len(heap) + 1, FALSE, FALSE)

\* s.remove(value)
SetRemove(h, value) ==
    LET r == HashSetPy_remove(heap[h].inner, value)
    IN IF r = None
       THEN /\ heap' = heap
            /\ last' = Call("remove", h, 0, value, "KeyError", 0, FALSE, FALSE)
       ELSE /\ HasRoom
            /\ heap' = Append(heap, Obj("HashSet", r[1]))
            /\ last' = Call("remove", h, 0, value, "ok", Len(heap) + 1, FALSE, FALSE)

\* s.update(*iterables)
SetUpdate(h, iterables) ==
    /\ heap' = Append(heap, Obj("HashSet", HashSetPy_update(heap[h].inner, iterables)))
    /\ last' = Call("update", h, 0, iterables, "ok", Len(heap) + 1, FALSE, FALSE)

\* a.union(b), a | b
SetUnion(h, o) ==
    /\ heap' = heap
    /\ last' = Call("union", h, o, <<>>, "ok", 0,
                    HashSetPy_union(heap[h].inner, heap[o].inner), FALSE)

\* a.intersection(b), a & b
SetIntersection(h, o) ==
    /\ heap' = heap
    /\ last' = Call("intersection", h, o, <<>>, "ok", 0,
                    HashSetPy_intersection(heap[h].inner, heap[o].inner), FALSE)

\* a.difference(b), a - b
SetDifference(h, o) ==
    /\ heap' = heap
    /\ last' = Call("difference", h, o, <<>>, "ok", 0,
                    HashSetPy_difference(heap[h].inner, heap[o].inner), FALSE)

\* a.symmetric_difference(b), a ^ b
SetSymmetricDifference(h, o) ==
    /\ heap' = heap
    /\ last' = Call("symmetric_difference", h, o, <<>>, "ok", 0,
                    HashSetPy_symmetric_difference(heap[h].inner, heap[o].inner), FALSE)

\* a == b, a != b, a < b, a <= b, ...
SetRichcmp(h, o, op) ==
    LET r == HashSetPy_richcmp(heap[h].inner, heap[o].inner, op)
    IN /\ heap' = heap
       /\ last' = Call(op, h, o, <<>>, r.status, 0, r.out, FALSE)

\* The arguments of HashSet(...).
SetValues == {None} \cup {Some(p) : p \in KeyLists}

SetUpdates ==
    \/ /\ HasRoom
       /\ \E value \in SetValues : SetInit(value)
    \/ /\ HasRoom
       /\ \E h \in Handles("HashSet"), value \in SetKeys : SetInsert(h, value)
    \/ /\ HasRoom
       /\ \E h \in Handles("HashSet"), value \in SetKeys : SetDiscard(h, value)
    \/ \E h \in Handles("HashSet"), value \in SetKeys : SetRemove(h, value)
    \/ /\ HasRoom
       /\ \E h \in Handles("HashSet"), iterables \in Iterables : SetUpdate(h, iterables)
    \/ \E h \in Handles("HashSet"), o \in Handles("HashSet") : SetUnion(h, o)
    \/ \E h \in Handles("HashSet"), o \in Handles("HashSet") : SetIntersection(h, o)
    \/ \E h \in Handles("HashSet"), o \in Handles("HashSet") : SetDifference(h, o)
    \/ \E h \in Handles("HashSet"), o \in Handles("HashSet") :
           SetSymmetricDifference(h, o)

SetCompares ==
    \E h \in Handles("HashSet"), o \in Handles("HashSet"), op \in CompareOps :
        SetRichcmp(h, o, op)

\* ------------------------------------------------------- vector actions

\* The argument lists of Vector(...): values, or one list.
VectorArgs ==
    {[i \in 1..Len(es) |-> ValArg(es[i])] : es \in ElemLists}
        \cup {<<ListArg(es)>> : es \in ElemLists}

\* Vector(*elements)
VecInit(elements) ==
    LET r == VectorPy_init(elements)
    IN IF r = None
       THEN /\ heap' = heap
            /\ last' = Call("init", 0, 0, elements, "TypeError", 0, FALSE, FALSE)
       ELSE /\ HasRoom /\ Meets("Vector")
            /\ heap' = Append(heap, Obj("Vector", r[1]))
            /\ last' = Call("init", 0, 0, elements, "ok", Len(heap) + 1, FALSE, FALSE)

\* v.push_front(other); the model's vectors hold at most MaxLen elements.
VecPushFront(h, other) ==
    /\ Len(heap[h].inner) < MaxLen
    /\ heap' = Append(heap, Obj("Vector", VectorPy_push_front(heap[h].inner, other)))
    /\ last' = Call("push_front", h, 0, other, "ok", Len(heap) + 1, FALSE, FALSE)

\* v.rest
VecRest(h) ==
    /\ heap' = Append(heap, Obj("Vector", VectorPy_rest(heap[h].inner)))
    /\ last' = Call("rest", h, 0, <<>>, "ok", Len(heap) + 1, FALSE, FALSE)

\* reversed(v)
VecReversed(h) ==
    /\ heap' = Append(heap, Obj("Vector", VectorPy_reversed(heap[h].inner)))
    /\ last' = Call("reversed", h, 0, <<>>, "ok", Len(heap) + 1, FALSE, FALSE)

\* v.first
VecFirst(h) ==
    LET r == VectorPy_first(heap[h].inner)
    IN /\ heap' = heap
       /\ last' = Call("first", h, 0, <<>>, r.status, 0, r.out, FALSE)

\* a == b, a != b, ...
VecRichcmp(h, o, op) ==
    LET r == VectorPy_richcmp(heap[h].inner, heap[o].inner, op)
    IN /\ heap' = heap
       /\ last' = Call(op, h, o, <<>>, r.status, 0, r.out, r.failed)

VecUpdates ==
    \/ \E elements \in VectorArgs : VecInit(elements)
    \/ /\ HasRoom
       /\ \E h \in Handles("Vector"), other \in Elems : VecPushFront(h, other)
    \/ /\ HasRoom
       /\ \E h \in Handles("Vector") : VecRest(h)
    \/ /\ HasRoom
       /\ \E h \in Handles("Vector") : VecReversed(h)

VecObserves ==
    \/ \E h \in Handles("Vector") : VecFirst(h)
    \/ \E h \in Handles("Vector"), o \in Handles("Vector"), op \in EqOps :
           VecRichcmp(h, o, op)

\* ------------------------------------------------------- specifications

Init == heap = <<>> /\ last = NoCall

MapNext == MapUpdates \/ MapCompares \/ Release

SetNext == SetUpdates \/ SetCompares \/ Release

VecNext == VecUpdates \/ VecObserves \/ Release

\* The calls that return a collection, of the three classes.
UpdNext == MapUpdates \/ SetUpdates \/ VecUpdates \/ Release

SpecMap == Init /\ [][MapNext]_vars

SpecSet == Init /\ [][SetNext]_vars

SpecVec == Init /\ [][VecNext]_vars

SpecUpd == Init /\ [][UpdNext]_vars

Next == MapNext \/ SetNext \/ VecNext

Spec == Init /\ [][Next]_vars

\* ------------------------------------------------------------ properties

\* What the claims mean by contents: the stored keys up to the host's
\* equality, and the binding of a key.
KeyClasses(inner) == {EqClass(inner[i].k.inner) : i \in 1..Len(inner)}

Bound(inner, key) == \E i \in 1..Len(inner) : EqClass(inner[i].k.inner) = EqClass(key)

PayloadOf(inner, key) ==
    inner[CHOOSE i \in 1..Len(inner) : EqClass(inner[i].k.inner) = EqClass(key)].v

IsMapCall(op) ==
    /\ last.op = op
    /\ last.self \in 1..Len(heap)
    /\ heap[last.self].kind = "HashMap"

\* C1. Map content equality: a == b returns true iff len(a) == len(b) and
\* every key of a is present in b with b[k] equal to a[k] (None payloads and
\* different key sets of the same size included), whatever the insertion order.
MapEqIsContentEquality ==
    IsMapCall("Eq") =>
        LET a == heap[last.self].inner
            b == heap[last.other].inner
        IN last.out <=>
               /\ Len(a) = Len(b)
               /\ \A i \in 1..Len(a) :
                      /\ Bound(b, a[i].k.inner)
                      /\ PyAny_eq(a[i].v, PayloadOf(b, a[i].k.inner)) = Ok(TRUE)

\* C7. Equality failures propagate: a Map or Sequence == or != during which a
\* payload's or element's equality raised signals the failure; it returns no
\* truth value in its place.
EqualityFailuresPropagate ==
    (last.op \in {"Eq", "Ne"} /\ last.failed) => last.status # "ok"

\* C10. Inequality is the negation of equality: when no payload's equality
\* fails, a != b returns true exactly when a == b returns false.
MapNeIsNotEq ==
    IsMapCall("Ne") =>
        LET a == heap[last.self].inner
            b == heap[last.other].inner
        IN (\A i \in 1..Len(a) : a[i].v # "bad") /\ (\A i \in 1..Len(b) : b[i].v # "bad")
               => (last.out <=> ~HashMapPy_richcmp(a, b, "Eq").out)

\* The bindings a call hands over, in the order the claim folds them.
RECURSIVE Flatten(_)
Flatten(lists) == IF lists = <<>> THEN <<>> ELSE lists[1] \o Flatten(Tail(lists))

Occurrences(pairs, key) == {i \in 1..Len(pairs) : EqClass(pairs[i].k) = EqClass(key)}

LastOf(S) == CHOOSE i \in S : \A j \in S : j <= i

\* What m[key] is after folding `pairs` into m with last-wins.
LastWins(m, pairs, key) ==
    IF Occurrences(pairs, key) # {}
    THEN [status |-> "ok", out |-> pairs[LastOf(Occurrences(pairs, key))].v]
    ELSE IF Bound(m, key) THEN [status |-> "ok", out |-> PayloadOf(m, key)]
    ELSE [status |-> "KeyError", out |-> "-"]

\* C8. Map update is a left-to-right fold with last-wins: in m.update(s1, ...,
\* sn, **kw) each key's payload is the one of the last source that holds it
\* (the keywords last), or m's; a map built from pairs with duplicate keys
\* keeps the payload of the last occurrence.
UpdateIsLastWins ==
    /\ IsMapCall("update") =>
           \A key \in Keys :
               HashMapPy_getitem(heap[last.ret].inner, key)
                   = LastWins(heap[last.self].inner,
                              Flatten(last.arg.maps) \o last.arg.kwds, key)
    /\ (last.op = "init" /\ last.ret # 0 /\ heap[last.ret].kind = "HashMap") =>
           \A key \in Keys :
               HashMapPy_getitem(heap[last.ret].inner, key)
                   = LastWins(<<>>,
                              (IF last.arg.value = None THEN <<>> ELSE last.arg.value[1])
                                  \o last.arg.kwds, key)

\* Two sources and a keyword bind equal keys to different payloads, and the
\* receiver binds one of them too.
UpdateIsLastWinsWitness ==
    /\ IsMapCall("update")
    /\ Len(last.arg.maps) = 2
    /\ last.arg.maps[1] = <<Pair("i1", "None")>>
    /\ last.arg.maps[2] = <<Pair("True", "i1")>>
    /\ last.arg.kwds = <<Pair("a", "None")>>
    /\ HashMapPy_getitem(heap[last.self].inner, "a").out = "i1"
    /\ HashMapPy_getitem(heap[last.self].inner, "i1").out = "bad"

\* The host value stored as the i-th key of a map or a set.
EntryKey(obj, i) ==
    IF obj.kind = "HashMap" THEN obj.inner[i].k.inner ELSE obj.inner[i].inner

Has(obj, key) == \E i \in 1..Len(obj.inner) : EqClass(EntryKey(obj, i)) = EqClass(key)

LenOf(obj) ==
    IF obj.kind = "HashMap" THEN HashMapPy_len(obj.inner)
    ELSE IF obj.kind = "HashSet" THEN HashSetPy_len(obj.inner)
    ELSE VectorPy_len(obj.inner)

\* Every observation of an instance: its length, its iteration contents,
\* the membership and the payload of each key.
Observe(obj) ==
    IF obj.kind = "HashMap" THEN
        [len |-> HashMapPy_len(obj.inner),
         iter |-> HashMapPy_keys(obj.inner),
         has |-> [k \in Keys |-> HashMapPy_contains(obj.inner, k)],
         at |-> [k \in Keys |-> HashMapPy_getitem(obj.inner, k)]]
    ELSE IF obj.kind = "HashSet" THEN
        [len |-> HashSetPy_len(obj.inner),
         iter |-> HashSetPy_iter(obj.inner),
         has |-> [k \in SetKeys |-> HashSet_contains(obj.inner, Key_extract(k))]]
    ELSE
        [len |-> VectorPy_len(obj.inner),
         iter |-> obj.inner,
         first |-> VectorPy_first(obj.inner)]

\* C2. Persistence: no call of an update operation, whether it returns or
\* raises, changes an observation (length, membership, payloads, iteration
\* contents) of an instance that exists when it is made.
Persistence ==
    [][Len(heap') >= Len(heap) =>
           \A h \in 1..Len(heap) : Observe(heap'[h]) = Observe(heap[h])]_vars

\* An insert has returned a map that differs from its non-empty receiver.
PersistenceWitness ==
    /\ IsMapCall("insert")
    /\ heap[last.self].inner # <<>>
    /\ Observe(heap[last.ret]) # Observe(heap[last.self])

IsKeyedCall(ops) ==
    /\ last.op \in ops
    /\ last.self \in 1..Len(heap)
    /\ heap[last.self].kind \in {"HashMap", "HashSet"}

\* The key a map or set call was given.
CallKey == IF heap[last.self].kind = "HashMap" /\ last.op = "insert"
           THEN last.arg.k ELSE last.arg

\* C5. Raising remove versus non-raising discard, for Map and Set: with the
\* key absent, remove raises KeyError and returns nothing while discard
\* returns a collection with the receiver's contents; with the key present
\* both return a collection without the key, one shorter, that keeps every
\* other binding.
RemoveRaisesDiscardDoesNot ==
    IsKeyedCall({"remove", "discard"}) =>
        LET m == heap[last.self]
        IN IF ~Has(m, CallKey)
           THEN IF last.op = "remove"
                THEN last.status = "KeyError" /\ last.ret = 0
                ELSE /\ last.status = "ok"
                     /\ last.ret # 0
                     /\ heap[last.ret] = m
           ELSE /\ last.status = "ok"
                /\ last.ret # 0
                /\ ~Has(heap[last.ret], CallKey)
                /\ LenOf(heap[last.ret]) = LenOf(m) - 1
                /\ \A i \in 1..Len(m.inner) :
                       EqClass(EntryKey(m, i)) # EqClass(CallKey)
                           => \E j \in 1..Len(heap[last.ret].inner) :
                                  heap[last.ret].inner[j] = m.inner[i]

\* remove has raised on a non-empty map that lacks the key.
RemoveRaisesWitness ==
    /\ IsMapCall("remove")
    /\ heap[last.self].inner # <<>>
    /\ ~Has(heap[last.self], last.arg)
    /\ last.status = "KeyError"

\* C9. Size invariant, for every Map and Set: len is the number of distinct
\* keys and no two stored keys are equal; inserting a key equal to a stored
\* one leaves len unchanged and binds the inserted payload, inserting any
\* other key adds exactly 1 to len.
SizeInvariant ==
    /\ \A h \in 1..Len(heap) :
           heap[h].kind \in {"HashMap", "HashSet"} =>
               /\ LenOf(heap[h])
                      = Cardinality({EqClass(EntryKey(heap[h], i)) : i \in 1..Len(heap[h].inner)})
               /\ \A i, j \in 1..Len(heap[h].inner) :
                      i # j => EqClass(EntryKey(heap[h], i)) # EqClass(EntryKey(heap[h], j))
    /\ IsKeyedCall({"insert"}) =>
           LET m == heap[last.self]
               r == heap[last.ret]
           IN /\ Has(r, CallKey)
              /\ IF Has(m, CallKey)
                 THEN /\ LenOf(r) = LenOf(m)
                      /\ m.kind = "HashMap" => PayloadOf(r.inner, CallKey) = last.arg.v
                 ELSE LenOf(r) = LenOf(m) + 1

\* True has been inserted into a map that binds the equal key 1 to another
\* payload.
SizeInvariantWitness ==
    /\ IsMapCall("insert")
    /\ last.arg.k = "True"
    /\ \E i \in 1..Len(heap[last.self].inner) :
           /\ heap[last.self].inner[i].k.inner = "i1"
           /\ heap[last.self].inner[i].v # last.arg.v
    /\ Len(heap[last.self].inner) = 2

\* The elements of a set, up to the host's equality.
Elts(inner) == {EqClass(inner[i].inner) : i \in 1..Len(inner)}

SetEq(x, y) == HashSetPy_richcmp(x, y, "Eq").out

IsSetCall(ops) ==
    /\ last.op \in ops
    /\ last.self \in 1..Len(heap)
    /\ heap[last.self].kind = "HashSet"

\* C3. Set algebra: whichever operand is larger, union, intersection,
\* difference and symmetric_difference return the mathematical result (a set
\* without duplicates), a | b == b | a, a & b == b & a, a - b holds no element
\* of b, and a ^ b == (a - b) | (b - a).
SetAlgebra ==
    IsSetCall({"union", "intersection", "difference", "symmetric_difference"}) =>
        LET a == heap[last.self].inner
            b == heap[last.other].inner
            r == last.out
        IN /\ Len(r) = Cardinality(Elts(r))
           /\ last.op = "union" =>
                  /\ Elts(r) = Elts(a) \cup Elts(b)
                  /\ SetEq(r, HashSetPy_union(b, a))
           /\ last.op = "intersection" =>
                  /\ Elts(r) = Elts(a) \cap Elts(b)
                  /\ SetEq(r, HashSetPy_intersection(b, a))
           /\ last.op = "difference" =>
                  /\ Elts(r) = Elts(a) \ Elts(b)
                  /\ \A i \in 1..Len(b) : ~HashSet_contains(r, b[i])
           /\ last.op = "symmetric_difference" =>
                  /\ Elts(r) = (Elts(a) \ Elts(b)) \cup (Elts(b) \ Elts(a))
                  /\ SetEq(r, HashSetPy_union(HashSetPy_difference(a, b),
                                              HashSetPy_difference(b, a)))

\* a ^ b of two sets of the same size that overlap in part.
SetAlgebraWitness ==
    /\ IsSetCall({"symmetric_difference"})
    /\ Len(heap[last.self].inner) = 2
    /\ Len(heap[last.other].inner) = 2
    /\ Cardinality(Elts(heap[last.self].inner) \cap Elts(heap[last.other].inner)) = 1
    /\ Elts(last.out) = {"i1", "a"}

\* C4. Subset ordering: a <= b returns true iff every element of a is in b,
\* a < b iff a <= b and len(a) < len(b), a == b iff a and b have the same
\* elements.
SubsetOrdering ==
    IsSetCall({"Le", "Lt", "Eq"}) =>
        LET a == heap[last.self].inner
            b == heap[last.other].inner
        IN /\ last.status = "ok"
           /\ last.op = "Le" => (last.out <=> Elts(a) \subseteq Elts(b))
           /\ last.op = "Lt" =>
                  (last.out <=> (Elts(a) \subseteq Elts(b)
                                    /\ HashSetPy_len(a) < HashSetPy_len(b)))
           /\ last.op = "Eq" => (last.out <=> Elts(a) = Elts(b))

\* a < b has answered true for a non-empty a.
SubsetOrderingWitness ==
    /\ IsSetCall({"Lt"})
    /\ heap[last.self].inner # <<>>
    /\ last.out

IsVecCall(op) ==
    /\ last.op = op
    /\ last.self \in 1..Len(heap)
    /\ heap[last.self].kind = "Vector"

\* s.rest.push_front(s.first)
Rebuilt(s) == VectorPy_push_front(VectorPy_rest(s), VectorPy_first(s).out)

\* rest, push_front and first on the contents of a sequence.
HeadTailParts ==
    /\ (IsVecCall("rest") /\ heap[last.self].inner # <<>>) =>
           LET s == heap[last.self].inner
               r == heap[last.ret].inner
           IN /\ VectorPy_len(r) = VectorPy_len(s) - 1
              /\ \A i \in 1..Len(r) : r[i] = s[i + 1]
    /\ IsVecCall("push_front") =>
           LET s == heap[last.self].inner
               r == heap[last.ret].inner
           IN /\ VectorPy_len(r) = VectorPy_len(s) + 1
              /\ r[1] = last.arg
              /\ \A i \in 1..Len(s) : r[i + 1] = s[i]
    /\ (IsVecCall("first") /\ heap[last.self].inner = <<>>) =>
           last.status = "IndexError"

\* C6, as stated, for the sequences whose elements' equality does not raise.
\* Sequence head/tail law: for non-empty s, rest holds elements 2..n,
\* push_front(x) holds x and then s, and s.rest.push_front(s.first) == s; first
\* of the empty sequence raises IndexError.
HeadTailLawAsStated ==
    /\ HeadTailParts
    /\ \A h \in Handles("Vector") :
           (heap[h].inner # <<>> /\ \A i \in 1..Len(heap[h].inner) : heap[h].inner[i] # "bad")
               => VectorPy_richcmp(Rebuilt(heap[h].inner), heap[h].inner, "Eq").out

\* C6, amended. As above, but s.rest.push_front(s.first) holds the elements of
\* s in order, and compares == s when every element of s compares equal to
\* itself (nan does not, and an element whose equality raises does not).
HeadTailLaw ==
    /\ HeadTailParts
    /\ \A h \in Handles("Vector") :
           heap[h].inner # <<>> =>
               /\ Rebuilt(heap[h].inner) = heap[h].inner
               /\ (\A i \in 1..Len(heap[h].inner) :
                       PyAny_eq(heap[h].inner[i], heap[h].inner[i]) = Ok(TRUE))
                      => VectorPy_richcmp(Rebuilt(heap[h].inner), heap[h].inner, "Eq").out

\* rest has been taken of a sequence of two different elements.
HeadTailLawWitness ==
    /\ IsVecCall("rest")
    /\ Len(heap[last.self].inner) = 2
    /\ heap[last.self].inner[1] = "i1"
    /\ heap[last.self].inner[2] = "a"
    /\ heap[last.ret].inner = <<"a">>

====
